---- MODULE Spec2Model ----
(***************************************************************************)
(* The persistent priority task queue of scripts/queue-manager.py:         *)
(* QueueDatabase (tasks, task_history and batches tables), PriorityQueue   *)
(* (heap and task map), BatchProcessor and the QueueManager facade.        *)
(***************************************************************************)
EXTENDS Integers, Sequences, FiniteSets, TLC

\* ------------------------------------------------------------------------
\* Bounds of the model
\* ------------------------------------------------------------------------
\* the clock moves by jumps of HourStep hours, up to MaxHours hours
HourStep == 4
MaxHours == 8
\* number of task rows the store holds at once
MaxTasks == 2
\* operations that append to task_history are taken while it has fewer rows
MaxHistory == 3
\* create_batches is taken while the batches table has fewer rows
MaxBatches == 1
\* the same as MaxHistory, for the task lifecycle alone (SpecLifecycle)
MaxLifecycleRows == 4
\* number of task rows of a store given to the batch operation
\* (SpecBatchStore)
MaxStoreTasks == 25
\* for aging (SpecAging): the clock moves by jumps of HourStep hours, up to
\* MaxAgingHours hours, and task_history gets up to MaxAgingRows rows
MaxAgingHours == 28
MaxAgingRows == 4
\* boost_count and retry_count of a task given to to_dict go up to
\* MaxCount (SpecRoundTrip)
MaxCount == 2
\* the same as MaxHistory, for the operations on a store that may fail
\* (SpecFault)
MaxFaultRows == 3
\* the same as MaxHistory, for two processes on one store (SpecShared)
MaxSharedRows == 3
\* the same as MaxHistory, for the operations that precede a batch operation
\* (SpecBatchFrame)
MaxFrameRows == 3

\* ------------------------------------------------------------------------
\* Program constants
\* ------------------------------------------------------------------------
P0_CRITICAL == 0
P1_HIGH == 1
P2_MEDIUM == 2
P3_LOW == 3
Priority == {P0_CRITICAL, P1_HIGH, P2_MEDIUM, P3_LOW}

P3_to_P2 == 4
P2_to_P1 == 8
P1_to_P0 == 24
BATCH_SIZE_LIMIT == 10
DefaultMaxRetries == 3
SecondsPerHour == 3600

PENDING == "pending"
RUNNING == "running"
COMPLETED == "completed"
FAILED == "failed"
BLOCKED == "blocked"
TaskStatus == {PENDING, RUNNING, COMPLETED, FAILED, BLOCKED}

\* the categories create_batches iterates over, in its order (two of the
\* ten listed ones), and the category values a caller passes to add_task
CategoryOrder == <<"security", "other">>
Categories == {"other"}

\* the categories and priorities of the tasks of a store given to the batch
\* operation: two categories that create_batches lists and one it does not
StoreCategories == {"security", "other", "adhoc"}
StorePriorities == {P1_HIGH, P2_MEDIUM}

\* the max_retries a caller passes to add_task (the default is
\* DefaultMaxRetries)
MaxRetriesChoices == {1}

\* Python's None for a timestamp, an agent, a batch id, a task id
None == -1
NoAgent == "None"
Agents == {NoAgent, "codex"}
NoBatch == <<>>
NoStatus == "None"
NoSuchId == -1
NoTask == [task_id |-> NoSuchId]

PriorityName(p) ==
    CASE p = P0_CRITICAL -> "P0_CRITICAL"
      [] p = P1_HIGH -> "P1_HIGH"
      [] p = P2_MEDIUM -> "P2_MEDIUM"
      [] OTHER -> "P3_LOW"

\* Priority.from_string: s.upper().strip(), then the look-up in mapping; an
\* unknown string raises ValueError.  UpperStrip is upper().strip() on the
\* strings of the model: it changes the two spellings below and leaves the
\* others, which are in upper case and without blanks
ValueError == 0 - 2
UpperStrip(s) ==
    CASE s = "p2" -> "P2"
      [] s = " critical " -> "CRITICAL"
      [] OTHER -> s

mapping ==
    [s \in {"P0", "CRITICAL", "P0-CRITICAL", "P1", "HIGH", "P1-HIGH",
            "P2", "MEDIUM", "P2-MEDIUM", "P3", "LOW", "P3-LOW"} |->
        CASE s \in {"P0", "CRITICAL", "P0-CRITICAL"} -> P0_CRITICAL
          [] s \in {"P1", "HIGH", "P1-HIGH"} -> P1_HIGH
          [] s \in {"P2", "MEDIUM", "P2-MEDIUM"} -> P2_MEDIUM
          [] OTHER -> P3_LOW]

FromStringDefaultsToMedium(s) ==
    IF UpperStrip(s) \in DOMAIN mapping THEN mapping[UpperStrip(s)] ELSE P2_MEDIUM

FromString(s) ==
    IF UpperStrip(s) \in DOMAIN mapping THEN mapping[UpperStrip(s)] ELSE ValueError

\* Task.to_dict: "priority" is the name of the enum member, "priority_value"
\* its number
ToDict(task) ==
    [task_id |-> task.task_id,
     priority |-> PriorityName(task.priority),
     priority_value |-> task.priority,
     category |-> task.category,
     status |-> task.status,
     assigned_agent |-> task.assigned_agent,
     created_at |-> task.created_at,
     updated_at |-> task.updated_at,
     started_at |-> task.started_at,
     completed_at |-> task.completed_at,
     original_priority |-> task.original_priority,
     boost_count |-> task.boost_count,
     batch_id |-> task.batch_id,
     retry_count |-> task.retry_count,
     max_retries |-> task.max_retries]

\* Task.from_dict: the priority is parsed from data["priority"]; when
\* from_string raises, from_dict raises and no task is made (NoTask)
FromDict(data) ==
    LET priority == FromString(data.priority)
    IN IF priority = ValueError THEN NoTask
       ELSE [task_id |-> data.task_id,
             priority |-> priority,
             original_priority |-> data.original_priority,
             category |-> data.category,
             status |-> data.status,
             assigned_agent |-> data.assigned_agent,
             created_at |-> data.created_at,
             updated_at |-> data.updated_at,
             started_at |-> data.started_at,
             completed_at |-> data.completed_at,
             boost_count |-> data.boost_count,
             batch_id |-> data.batch_id,
             retry_count |-> data.retry_count,
             max_retries |-> data.max_retries]

\* ------------------------------------------------------------------------
\* State
\* ------------------------------------------------------------------------
VARIABLES
    now,            \* the wall clock, in seconds
    tasks,          \* table tasks: task_id -> row
    history_rows,   \* table task_history: number of rows (it is append-only
                    \* and never read; the rows appended by the latest
                    \* operation are in ret.appended)
    batches,        \* table batches: batch_id -> row
    heap,           \* PriorityQueue._heap
    task_map,       \* PriorityQueue._task_map
    batch_counter,  \* BatchProcessor._batch_counter
    ret,            \* the latest operation: its name, argument and result
    popped,         \* history variable: ids pop() returned on this queue
                    \* instance and no retry has re-added since
    only_adds,      \* history variable: this instance has seen only
                    \* add_task and peek so far
    other           \* the operation that a second process, which shares the
                    \* store, has in flight: its name and the Task object
                    \* it read from the store and changed (NoCall: none)

vars == <<now, tasks, history_rows, batches, heap, task_map, batch_counter,
          ret, popped, only_adds, other>>

NoCall == [op |-> "none"]

\* ------------------------------------------------------------------------
\* Helpers
\* ------------------------------------------------------------------------
Put(f, k, v) == [x \in DOMAIN f \cup {k} |-> IF x = k THEN v ELSE f[x]]
Remove(f, k) == [x \in DOMAIN f \ {k} |-> f[x]]
EmptyTable == [x \in {} |-> x]

\* int(time.time()): whole seconds of the clock
TimeSeconds(t) == t

\* task_id = f"task_{int(time.time())}_{os.getpid()}": within one process
\* the id is determined by the second of the clock
NewTaskId(t) == TimeSeconds(t)

\* datetime.now().isoformat() as written to updated_at, started_at and
\* completed_at of a task and to created_at of a batch.  These values are
\* only stored (the queue never compares them), so the model keeps that the
\* field holds a time stamp and not which one.
Stamp(t) == 0

\* Task.create, then the field updates of PriorityQueue.add
TaskCreate(id, p, c, max_retries, t) ==
    [task_id |-> id, priority |-> p, original_priority |-> p,
     category |-> c, status |-> PENDING, assigned_agent |-> NoAgent,
     created_at |-> t, updated_at |-> Stamp(t), started_at |-> None,
     completed_at |-> None, boost_count |-> 0, batch_id |-> NoBatch,
     retry_count |-> 0, max_retries |-> max_retries]

\* the ordering fields of a Task object; the heap and the task map are read
\* for these fields and the task id only
SortTimestamp(created_at) == 0 - created_at
Entry(t) ==
    [sort_priority |-> t.priority,
     sort_timestamp |-> SortTimestamp(t.created_at),
     task_id |-> t.task_id]

\* @dataclass(order=True): compare (sort_priority, sort_timestamp)
TaskLess(a, b) ==
    \/ a.sort_priority < b.sort_priority
    \/ /\ a.sort_priority = b.sort_priority
       /\ a.sort_timestamp < b.sort_timestamp

\* heapq: the heap delivers its entries least first.  Entries that compare
\* equal carry the same created_at, hence the same task id and are
\* interchangeable, so the heap is kept as the sorted sequence of its
\* entries.
HeapPush(h, e) ==
    LET k == Cardinality({i \in 1..Len(h) : ~ TaskLess(e, h[i])})
    IN SubSeq(h, 1, k) \o <<e>> \o SubSeq(h, k + 1, Len(h))

RECURSIVE Heapify(_)
Heapify(S) ==
    IF S = {} THEN <<>>
    ELSE LET m == CHOOSE x \in S : \A y \in S : ~ TaskLess(y, x)
         IN <<m>> \o Heapify(S \ {m})

\* PriorityQueue._rebuild_heap
RebuildHeap(m) == Heapify({m[i] : i \in DOMAIN m})

\* QueueDatabase.get_task
GetTask(db, id) == IF id \in DOMAIN db THEN db[id] ELSE NoTask
Found(t) == t.task_id # NoSuchId

\* ORDER BY priority ASC, created_at ASC
RowLess(a, b) ==
    \/ a.priority < b.priority
    \/ a.priority = b.priority /\ a.created_at < b.created_at

RECURSIVE SortRows(_)
SortRows(S) ==
    IF S = {} THEN <<>>
    ELSE LET m == CHOOSE x \in S : \A y \in S : ~ RowLess(y, x)
         IN <<m>> \o SortRows(S \ {m})

\* the ids of the pending tasks of a store
PendingIdsOf(db) == {i \in DOMAIN db : db[i].status = PENDING}

\* QueueDatabase.get_tasks_by_status / get_pending_tasks
GetTasksByStatus(db, s) == SortRows({db[i] : i \in {j \in DOMAIN db : db[j].status = s}})
GetPendingTasks(db) == GetTasksByStatus(db, PENDING)

\* a row of task_history
HistoryRow(id, action, old, new) ==
    [task_id |-> id, action |-> action, old_value |-> old, new_value |-> new]


\* ------------------------------------------------------------------------
\* PriorityQueue
\* ------------------------------------------------------------------------
\* (variant: the record read back is not tested for its status)
StillPendingAnyStatus(current) == Found(current)

\* the test of pop and peek on the record read back from the store
StillPending(current) == Found(current) /\ current.status = PENDING

\* PriorityQueue.pop: the loop over the heap
\* (variant: pop does not read the task back and returns the entry it
\* holds)
RECURSIVE PopScanReturnsEntry(_, _, _)
PopScanReturnsEntry(h, m, db) ==
    IF h = <<>> THEN [heap |-> h, map |-> m, task |-> NoTask]
    ELSE LET task == Head(h)
             rest == Tail(h)
         IN IF task.task_id \in DOMAIN m
            THEN [heap |-> rest, map |-> Remove(m, task.task_id), task |-> task]
            ELSE PopScanReturnsEntry(rest, m, db)

RECURSIVE PopScan(_, _, _)
PopScan(h, m, db) ==
    IF h = <<>> THEN [heap |-> h, map |-> m, task |-> NoTask]
    ELSE LET task == Head(h)
             rest == Tail(h)
             current == GetTask(db, task.task_id)
         IN IF task.task_id \in DOMAIN m /\ StillPending(current)
            THEN [heap |-> rest, map |-> Remove(m, task.task_id), task |-> current]
            ELSE PopScan(rest, m, db)

\* (variant: peek takes the entry it returns off the heap, as pop does)
RECURSIVE PeekScanRemoves(_, _, _)
PeekScanRemoves(h, m, db) ==
    IF h = <<>> THEN [heap |-> h, map |-> m, task |-> NoTask]
    ELSE LET task == Head(h)
             current == GetTask(db, task.task_id)
         IN IF task.task_id \in DOMAIN m /\ StillPending(current)
            THEN [heap |-> Tail(h), map |-> m, task |-> current]
            ELSE PeekScanRemoves(Tail(h), m, db)

\* PriorityQueue.peek: the loop over the heap
RECURSIVE PeekScan(_, _, _)
PeekScan(h, m, db) ==
    IF h = <<>> THEN [heap |-> h, map |-> m, task |-> NoTask]
    ELSE LET task == Head(h)
             current == GetTask(db, task.task_id)
         IN IF task.task_id \in DOMAIN m /\ StillPending(current)
            THEN [heap |-> h, map |-> m, task |-> current]
            ELSE PeekScan(Tail(h), m, db)

\* (variant: the history event is recorded before the task is looked up)
UpdatePriorityMovesOriginal(q, task_id, new_priority, is_boost, t) ==
    LET task == GetTask(q.tasks, task_id)
    IN IF ~ Found(task) THEN [q EXCEPT !.ok = FALSE]
       ELSE LET upd == [task EXCEPT !.priority = new_priority,
                                    !.original_priority = IF is_boost THEN @ ELSE new_priority,
                                    !.updated_at = Stamp(t),
                                    !.boost_count = IF is_boost THEN @ + 1 ELSE @]
                row == HistoryRow(task_id,
                                  IF is_boost THEN "priority_boost" ELSE "priority_change",
                                  PriorityName(task.priority), PriorityName(new_priority))
                inMap == task_id \in DOMAIN q.map
                m2 == IF inMap THEN Put(q.map, task_id, Entry(upd)) ELSE q.map
            IN [tasks |-> Put(q.tasks, task_id, upd),
                heap |-> IF inMap THEN RebuildHeap(m2) ELSE q.heap,
                map |-> m2,
                appended |-> Append(q.appended, row),
                ok |-> TRUE]

UpdatePriorityRecordsFirst(q, task_id, new_priority, is_boost, t) ==
    LET task == GetTask(q.tasks, task_id)
    IN IF ~ Found(task)
       THEN [q EXCEPT !.ok = FALSE,
                      !.appended = Append(@, HistoryRow(task_id, "priority_change",
                                                        "None", PriorityName(new_priority)))]
       ELSE LET upd == [task EXCEPT !.priority = new_priority,
                                    !.updated_at = Stamp(t),
                                    !.boost_count = IF is_boost THEN @ + 1 ELSE @]
                row == HistoryRow(task_id,
                                  IF is_boost THEN "priority_boost" ELSE "priority_change",
                                  PriorityName(task.priority), PriorityName(new_priority))
                inMap == task_id \in DOMAIN q.map
                m2 == IF inMap THEN Put(q.map, task_id, Entry(upd)) ELSE q.map
            IN [tasks |-> Put(q.tasks, task_id, upd),
                heap |-> IF inMap THEN RebuildHeap(m2) ELSE q.heap,
                map |-> m2,
                appended |-> Append(q.appended, row),
                ok |-> TRUE]

\* PriorityQueue.update_priority on the state q = [tasks, heap, map,
\* appended, ok]; the result is the state after the call
UpdatePriority(q, task_id, new_priority, is_boost, t) ==
    LET task == GetTask(q.tasks, task_id)
    IN IF ~ Found(task) THEN [q EXCEPT !.ok = FALSE]
       ELSE LET upd == [task EXCEPT !.priority = new_priority,
                                    !.updated_at = Stamp(t),
                                    !.boost_count = IF is_boost THEN @ + 1 ELSE @]
                row == HistoryRow(task_id,
                                  IF is_boost THEN "priority_boost" ELSE "priority_change",
                                  PriorityName(task.priority), PriorityName(new_priority))
                inMap == task_id \in DOMAIN q.map
                m2 == IF inMap THEN Put(q.map, task_id, Entry(upd)) ELSE q.map
            IN [tasks |-> Put(q.tasks, task_id, upd),
                heap |-> IF inMap THEN RebuildHeap(m2) ELSE q.heap,
                map |-> m2,
                appended |-> Append(q.appended, row),
                ok |-> TRUE]

\* PriorityQueue.size and is_empty: the number of entries of _task_map
Size(m) == Cardinality(DOMAIN m)
IsEmpty(m) == Size(m) = 0

\* (variant: a task old enough for two promotions gets both at once)
NewPrioritySkipsTiers(task, t) ==
    LET age == t - task.created_at
    IN CASE task.priority = P3_LOW /\ age >= P2_to_P1 * SecondsPerHour -> P1_HIGH
         [] task.priority = P3_LOW /\ age >= P3_to_P2 * SecondsPerHour -> P2_MEDIUM
         [] task.priority = P2_MEDIUM /\ age >= P2_to_P1 * SecondsPerHour -> P1_HIGH
         [] task.priority = P1_HIGH /\ age >= P1_to_P0 * SecondsPerHour -> P0_CRITICAL
         [] OTHER -> None

\* (variant: the P2 tier is tested against the P3 threshold)
NewPriorityWrongThreshold(task, t) ==
    LET age == t - task.created_at
    IN CASE task.priority = P3_LOW /\ age >= P3_to_P2 * SecondsPerHour -> P2_MEDIUM
         [] task.priority = P2_MEDIUM /\ age >= P3_to_P2 * SecondsPerHour -> P1_HIGH
         [] task.priority = P1_HIGH /\ age >= P1_to_P0 * SecondsPerHour -> P0_CRITICAL
         [] OTHER -> None

\* the promotion apply_age_boosts computes for one pending task (None: no
\* promotion); age_hours = (now - created).total_seconds() / 3600
NewPriority(task, t) ==
    LET age == t - task.created_at
    IN CASE task.priority = P3_LOW /\ age >= P3_to_P2 * SecondsPerHour -> P2_MEDIUM
         [] task.priority = P2_MEDIUM /\ age >= P2_to_P1 * SecondsPerHour -> P1_HIGH
         [] task.priority = P1_HIGH /\ age >= P1_to_P0 * SecondsPerHour -> P0_CRITICAL
         [] OTHER -> None

\* "if new_priority:" - the truth value of an Optional[Priority] (an
\* IntEnum): None and the member of value 0 are false
Truthy(p) == p # None /\ p # 0

\* PriorityQueue.apply_age_boosts: the loop over the pending tasks read at
\* its start; q carries the number of boosted tasks in q.boosted
RECURSIVE BoostLoop(_, _, _)
BoostLoop(q, pending_tasks, t) ==
    IF pending_tasks = <<>> THEN q
    ELSE LET task == Head(pending_tasks)
             new_priority == NewPriority(task, t)
         IN IF Truthy(new_priority)
            THEN LET u == UpdatePriority([tasks |-> q.tasks, heap |-> q.heap,
                                          map |-> q.map, appended |-> q.appended,
                                          ok |-> TRUE],
                                         task.task_id, new_priority, TRUE, t)
                 IN BoostLoop([tasks |-> u.tasks, heap |-> u.heap, map |-> u.map,
                               appended |-> u.appended, boosted |-> q.boosted + 1],
                              Tail(pending_tasks), t)
            ELSE BoostLoop(q, Tail(pending_tasks), t)

ApplyAgeBoosts(db, h, m, t) ==
    BoostLoop([tasks |-> db, heap |-> h, map |-> m, appended |-> <<>>, boosted |-> 0],
              GetPendingTasks(db), t)

\* PriorityQueue.apply_age_boosts when the store raises (sqlite3 error out
\* of _get_connection) during the update of task bad: in record_history
\* (where = "history") or, after the history row is committed, in save_task
\* (where = "save").  Nothing catches the exception, so the loop ends there;
\* q.raised tells that it was raised.
RECURSIVE BoostLoopRaising(_, _, _, _, _)
BoostLoopRaising(q, pending_tasks, t, bad, where) ==
    IF pending_tasks = <<>> THEN q
    ELSE LET task == Head(pending_tasks)
             new_priority == NewPriority(task, t)
             row == HistoryRow(task.task_id, "priority_boost",
                               PriorityName(task.priority), PriorityName(new_priority))
         IN IF ~ Truthy(new_priority)
            THEN BoostLoopRaising(q, Tail(pending_tasks), t, bad, where)
            ELSE IF task.task_id = bad
            THEN [q EXCEPT !.raised = TRUE,
                           !.appended = IF where = "save" THEN Append(@, row) ELSE @]
            ELSE LET u == UpdatePriority([tasks |-> q.tasks, heap |-> q.heap,
                                          map |-> q.map, appended |-> q.appended,
                                          ok |-> TRUE],
                                         task.task_id, new_priority, TRUE, t)
                 IN BoostLoopRaising([tasks |-> u.tasks, heap |-> u.heap, map |-> u.map,
                                      appended |-> u.appended, boosted |-> q.boosted + 1,
                                      raised |-> FALSE],
                                     Tail(pending_tasks), t, bad, where)

ApplyAgeBoostsRaising(db, h, m, t, bad, where) ==
    BoostLoopRaising([tasks |-> db, heap |-> h, map |-> m, appended |-> <<>>,
                      boosted |-> 0, raised |-> FALSE],
                     GetPendingTasks(db), t, bad, where)

\* the record of the latest operation
Ret(op, id, ok, task, appended) ==
    [op |-> op, id |-> id, ok |-> ok, task |-> task, appended |-> appended,
     count |-> 0, batches |-> <<>>]


\* ------------------------------------------------------------------------
\* BatchProcessor
\* ------------------------------------------------------------------------
\* the orders in which a query may return rows that its ORDER BY ties
Orders(S) == {o \in [1..Cardinality(S) -> S] : \A i, j \in DOMAIN o : o[i] = o[j] => i = j}

RECURSIVE RowsOf(_, _, _, _)
RowsOf(db, ord, category, priority) ==
    IF ord = <<>> THEN <<>>
    ELSE LET r == db[Head(ord)]
         IN (IF r.category = category /\ r.priority = priority THEN <<r>> ELSE <<>>)
            \o RowsOf(db, Tail(ord), category, priority)

\* two of these orders: by ascending and by descending id
RECURSIVE IdsUp(_)
IdsUp(S) ==
    IF S = {} THEN <<>>
    ELSE LET m == CHOOSE x \in S : \A y \in S : x <= y
         IN <<m>> \o IdsUp(S \ {m})

RECURSIVE IdsDown(_)
IdsDown(S) ==
    IF S = {} THEN <<>>
    ELSE LET m == CHOOSE x \in S : \A y \in S : x >= y
         IN <<m>> \o IdsDown(S \ {m})

\* (variant: the status filter is left out of the query)
GetTasksByCategoryAnyStatus(db, category, status, ord) ==
    RowsOf(db, ord, category, P0_CRITICAL) \o RowsOf(db, ord, category, P1_HIGH)
       \o RowsOf(db, ord, category, P2_MEDIUM) \o RowsOf(db, ord, category, P3_LOW)

\* QueueDatabase.get_tasks_by_category(category, status): ORDER BY priority
\* ASC only; rows of equal priority come in the order ord.  "if status:"
\* leaves the status test out of the query when no status is given
GetTasksByCategory(db, category, status, ord) ==
    LET sel == IF status = NoStatus THEN ord
               ELSE SelectSeq(ord, LAMBDA i : db[i].status = status)
    IN RowsOf(db, sel, category, P0_CRITICAL) \o RowsOf(db, sel, category, P1_HIGH)
       \o RowsOf(db, sel, category, P2_MEDIUM) \o RowsOf(db, sel, category, P3_LOW)

\* (variant: the id is made from the second alone, as a task id is)
GenerateBatchIdNoCounter(counter, t) == <<TimeSeconds(t), 0>>

\* BatchProcessor._generate_batch_id, from the incremented counter
GenerateBatchId(counter, t) == <<TimeSeconds(t), counter>>

NewBatch(batch_id, category, priority, t) ==
    [batch_id |-> batch_id, category |-> category, priority |-> priority,
     tasks |-> <<>>, created_at |-> Stamp(t), status |-> PENDING]

\* (variant: a task put in a batch is marked as running)
BatchAddTaskMarksRunning(batch, task) ==
    IF Len(batch.tasks) >= BATCH_SIZE_LIMIT \/ task.category # batch.category
    THEN [ok |-> FALSE, batch |-> batch, task |-> task]
    ELSE [ok |-> TRUE,
          batch |-> [batch EXCEPT !.tasks = Append(@, task.task_id)],
          task |-> [task EXCEPT !.batch_id = batch.batch_id, !.status = RUNNING]]

\* Batch.add_task; tasks holds the ids of the member tasks
BatchAddTask(batch, task) ==
    IF Len(batch.tasks) >= BATCH_SIZE_LIMIT \/ task.category # batch.category
    THEN [ok |-> FALSE, batch |-> batch, task |-> task]
    ELSE [ok |-> TRUE,
          batch |-> [batch EXCEPT !.tasks = Append(@, task.task_id)],
          task |-> [task EXCEPT !.batch_id = batch.batch_id]]

\* QueueDatabase.save_batch
SaveBatch(table, batch) ==
    Put(table, batch.batch_id,
        [category |-> batch.category, priority |-> batch.priority,
         created_at |-> batch.created_at, status |-> batch.status])

\* create_batches: the loop over the tasks of one (priority, category);
\* save_task replaces the row of the task, which was read from the store;
\* b = [tasks, batches, counter, out], started: current_batch is not None,
\* and then current_batch is the last batch of b.out
RECURSIVE PackLoop(_, _, _, _, _, _)
PackLoop(b, list, category, priority, t, started) ==
    IF list = <<>>
    THEN IF started
         THEN [b EXCEPT !.batches = SaveBatch(@, b.out[Len(b.out)])]
         ELSE b
    ELSE LET task == Head(list)
             fresh == ~ started \/ Len(b.out[Len(b.out)].tasks) >= BATCH_SIZE_LIMIT
             counter2 == IF fresh THEN b.counter + 1 ELSE b.counter
             out1 == IF fresh
                     THEN Append(b.out, NewBatch(GenerateBatchId(counter2, t),
                                                 category, priority, t))
                     ELSE b.out
             r == BatchAddTask(out1[Len(out1)], task)
         IN PackLoop([tasks |-> [b.tasks EXCEPT ![task.task_id] = r.task],
                      batches |-> b.batches,
                      counter |-> counter2,
                      out |-> [out1 EXCEPT ![Len(out1)] = r.batch]],
                     Tail(list), category, priority, t, TRUE)

\* create_batches: the loops over the priorities and the categories
RECURSIVE CategoryLoop(_, _, _, _, _)
CategoryLoop(b, cats, priority, ord, t) ==
    IF cats = <<>> THEN b
    ELSE LET all == GetTasksByCategory(b.tasks, Head(cats), PENDING, ord)
             list == SelectSeq(all, LAMBDA x : x.priority = priority)
         IN CategoryLoop(PackLoop(b, list, Head(cats), priority, t, FALSE),
                         Tail(cats), priority, ord, t)

RECURSIVE PriorityLoop(_, _, _, _)
PriorityLoop(b, priority, ord, t) ==
    IF priority > P3_LOW THEN b
    ELSE PriorityLoop(CategoryLoop(b, CategoryOrder, priority, ord, t),
                      priority + 1, ord, t)

CreateBatches(db, table, counter, ord, t) ==
    PriorityLoop([tasks |-> db, batches |-> table, counter |-> counter, out |-> <<>>],
                 P0_CRITICAL, ord, t)

\* ------------------------------------------------------------------------
\* Initial state: an empty store and a QueueManager constructed over it
\* ------------------------------------------------------------------------
Init ==
    /\ now = 0
    /\ tasks = EmptyTable
    /\ history_rows = 0
    /\ batches = EmptyTable
    /\ heap = <<>>
    /\ task_map = EmptyTable
    /\ batch_counter = 0
    /\ ret = Ret("init", NoSuchId, TRUE, NoTask, <<>>)
    /\ popped = {}
    /\ only_adds = TRUE
    /\ other = NoCall

\* ------------------------------------------------------------------------
\* Stores for the batch operation: a QueueManager constructed over a store
\* of n task rows (ids and creation seconds 1..n); the first a rows have
\* the category, priority and status A, the other rows have B
\* ------------------------------------------------------------------------
StoreProfiles ==
    [category : StoreCategories, priority : StorePriorities,
     status : {PENDING, RUNNING}]

StoreTask(i, prof) ==
    [TaskCreate(i, prof.priority, prof.category, DefaultMaxRetries, i)
        EXCEPT !.status = prof.status,
               !.started_at = IF prof.status = RUNNING THEN Stamp(i) ELSE None]

InitStore ==
    \E n \in 0..MaxStoreTasks, a \in 0..MaxStoreTasks, A \in StoreProfiles,
       B \in StoreProfiles :
        /\ a <= n
        /\ now = MaxStoreTasks + 1
        /\ tasks = [i \in 1..n |-> StoreTask(i, IF i <= a THEN A ELSE B)]
        /\ history_rows = n
        /\ batches = EmptyTable
        /\ task_map = [i \in PendingIdsOf(tasks) |-> Entry(tasks[i])]
        /\ heap = Heapify({Entry(tasks[i]) : i \in PendingIdsOf(tasks)})
        /\ batch_counter = 0
        /\ ret = Ret("init", NoSuchId, TRUE, NoTask, <<>>)
        /\ popped = {}
        /\ only_adds = FALSE
        /\ other = NoCall

\* ------------------------------------------------------------------------
\* A task for the external record form: a store that holds one task, of any
\* priority, original priority, status and counts
\* ------------------------------------------------------------------------
InitTask ==
    \E p \in Priority, o \in Priority, st \in TaskStatus,
       b \in 0..MaxCount, r \in 0..MaxCount :
        /\ now = 1
        /\ tasks = [i \in {1} |->
                      [TaskCreate(1, p, "other", DefaultMaxRetries + MaxCount, 1)
                          EXCEPT !.original_priority = o,
                                 !.status = st,
                                 !.boost_count = b,
                                 !.retry_count = r,
                                 !.started_at = IF st = PENDING THEN None ELSE Stamp(1),
                                 !.completed_at = IF st \in {COMPLETED, FAILED}
                                                  THEN Stamp(1) ELSE None]]
        /\ history_rows = 1 + b + r
        /\ batches = EmptyTable
        /\ task_map = [i \in PendingIdsOf(tasks) |-> Entry(tasks[i])]
        /\ heap = Heapify({Entry(tasks[i]) : i \in PendingIdsOf(tasks)})
        /\ batch_counter = 0
        /\ ret = Ret("init", NoSuchId, TRUE, NoTask, <<>>)
        /\ popped = {}
        /\ only_adds = FALSE
        /\ other = NoCall

\* the ids an operation is called with: those of the stored tasks and those
\* the queue still holds (of deleted tasks)
OpIds == DOMAIN tasks \cup DOMAIN task_map

\* ------------------------------------------------------------------------
\* The clock
\* ------------------------------------------------------------------------
PassHours ==
    /\ now + HourStep * SecondsPerHour <= MaxHours * SecondsPerHour
    /\ now' = now + HourStep * SecondsPerHour
    /\ ret' = Ret("hours", NoSuchId, TRUE, NoTask, <<>>)
    /\ UNCHANGED <<other, tasks, history_rows, batches, heap, task_map, batch_counter,
                   popped, only_adds>>

\* the clock between aging passes
PassAgingHours ==
    /\ now + HourStep * SecondsPerHour <= MaxAgingHours * SecondsPerHour
    /\ now' = now + HourStep * SecondsPerHour
    /\ ret' = Ret("hours", NoSuchId, TRUE, NoTask, <<>>)
    /\ UNCHANGED <<other, tasks, history_rows, batches, heap, task_map, batch_counter,
                   popped, only_adds>>

\* ------------------------------------------------------------------------
\* QueueManager and PriorityQueue operations
\* ------------------------------------------------------------------------
\* QueueManager.add_task -> Task.create -> PriorityQueue.add
AddTask(priority, category, max_retries) ==
    LET task_id == NewTaskId(now)
        task == TaskCreate(task_id, priority, category, max_retries, now)
    IN /\ task_id \in DOMAIN tasks \/ Cardinality(DOMAIN tasks) < MaxTasks
       /\ tasks' = Put(tasks, task_id, task)
       /\ history_rows' = history_rows + 1
       /\ task_map' = Put(task_map, task_id, Entry(task))
       /\ heap' = HeapPush(heap, Entry(task))
       /\ ret' = Ret("add", task_id, TRUE, task,
                     <<HistoryRow(task_id, "created", "None", PriorityName(priority))>>)
       /\ UNCHANGED <<other, now, batches, batch_counter, popped, only_adds>>

\* PriorityQueue.pop
Pop ==
    LET r == PopScan(heap, task_map, tasks)
    IN /\ heap' = r.heap
       /\ task_map' = r.map
       /\ ret' = Ret("pop", r.task.task_id, Found(r.task), r.task, <<>>)
       /\ popped' = IF Found(r.task) THEN popped \cup {r.task.task_id} ELSE popped
       /\ only_adds' = FALSE
       /\ UNCHANGED <<other, now, tasks, history_rows, batches, batch_counter>>

\* PriorityQueue.peek
Peek ==
    LET r == PeekScan(heap, task_map, tasks)
    IN /\ heap' = r.heap
       /\ task_map' = r.map
       /\ ret' = Ret("peek", r.task.task_id, Found(r.task), r.task, <<>>)
       /\ UNCHANGED <<other, now, tasks, history_rows, batches, batch_counter, popped,
                      only_adds>>

\* QueueManager.start_task
StartTask(task_id, agent) ==
    LET task == GetTask(tasks, task_id)
        upd == [task EXCEPT !.status = RUNNING,
                            !.started_at = Stamp(now),
                            !.updated_at = Stamp(now),
                            !.assigned_agent = IF agent # NoAgent THEN agent ELSE @]
    IN /\ IF ~ Found(task)
          THEN /\ ret' = Ret("start", task_id, FALSE, NoTask, <<>>)
               /\ UNCHANGED <<tasks, history_rows>>
          ELSE /\ tasks' = Put(tasks, task_id, upd)
               /\ history_rows' = history_rows + 1
               /\ ret' = Ret("start", task_id, TRUE, upd,
                             <<HistoryRow(task_id, "started", PENDING, RUNNING)>>)
       /\ only_adds' = FALSE
       /\ UNCHANGED <<other, now, batches, heap, task_map, batch_counter, popped>>

\* QueueManager.complete_task
CompleteTask(task_id, success) ==
    LET task == GetTask(tasks, task_id)
        new_status == IF success THEN COMPLETED ELSE FAILED
        upd == [task EXCEPT !.status = new_status,
                            !.completed_at = Stamp(now),
                            !.updated_at = Stamp(now)]
    IN /\ IF ~ Found(task)
          THEN /\ ret' = Ret("complete", task_id, FALSE, NoTask, <<>>)
               /\ UNCHANGED <<tasks, history_rows>>
          ELSE /\ tasks' = Put(tasks, task_id, upd)
               /\ history_rows' = history_rows + 1
               /\ ret' = Ret("complete", task_id, TRUE, upd,
                             <<HistoryRow(task_id,
                                          IF success THEN "completed" ELSE "failed",
                                          RUNNING, new_status)>>)
       /\ only_adds' = FALSE
       /\ UNCHANGED <<other, now, batches, heap, task_map, batch_counter, popped>>

\* (variant: the last retry is refused)
RetriesExhaustedOneEarly(task) == task.retry_count + 1 >= task.max_retries

\* (variant: the refusal test is off by one)
RetriesExhaustedOffByOne(task) == task.retry_count > task.max_retries

\* the refusal test of retry_task
RetriesExhausted(task) == task.retry_count >= task.max_retries

\* QueueManager.retry_task
RetryTask(task_id) ==
    LET task == GetTask(tasks, task_id)
        upd == [task EXCEPT !.retry_count = @ + 1,
                            !.status = PENDING,
                            !.started_at = None,
                            !.completed_at = None,
                            !.updated_at = Stamp(now)]
    IN /\ IF ~ Found(task) \/ RetriesExhausted(task)
          THEN /\ ret' = Ret("retry", task_id, FALSE, NoTask, <<>>)
               /\ UNCHANGED <<tasks, history_rows, heap, task_map, popped>>
          ELSE /\ tasks' = Put(tasks, task_id, upd)
               /\ history_rows' = history_rows + 1
               /\ task_map' = Put(task_map, task_id, Entry(upd))
               /\ heap' = HeapPush(heap, Entry(upd))
               /\ popped' = popped \ {task_id}
               /\ ret' = Ret("retry", task_id, TRUE, upd,
                             <<HistoryRow(task_id, "retry", FAILED, PENDING)>>)
       /\ only_adds' = FALSE
       /\ UNCHANGED <<other, now, batches, batch_counter>>

\* QueueManager.set_priority -> PriorityQueue.update_priority
SetPriority(task_id, priority) ==
    LET u == UpdatePriority([tasks |-> tasks, heap |-> heap, map |-> task_map,
                             appended |-> <<>>, ok |-> TRUE],
                            task_id, priority, FALSE, now)
    IN /\ tasks' = u.tasks
       /\ heap' = u.heap
       /\ task_map' = u.map
       /\ history_rows' = history_rows + Len(u.appended)
       /\ ret' = Ret("priority", task_id, u.ok, GetTask(u.tasks, task_id), u.appended)
       /\ only_adds' = FALSE
       /\ UNCHANGED <<other, now, batches, batch_counter, popped>>

\* QueueManager.apply_boosts -> PriorityQueue.apply_age_boosts
\* (u ranges over a one-element set: the result of the pass, computed once)
ApplyBoosts ==
    \E u \in {ApplyAgeBoosts(tasks, heap, task_map, now)} :
       /\ tasks' = u.tasks
       /\ heap' = u.heap
       /\ task_map' = u.map
       /\ history_rows' = history_rows + Len(u.appended)
       /\ ret' = [Ret("boost", NoSuchId, TRUE, NoTask, u.appended) EXCEPT !.count = u.boosted]
       /\ only_adds' = FALSE
       /\ UNCHANGED <<other, now, batches, batch_counter, popped>>

\* QueueManager.apply_boosts when the store raises during the update of task
\* bad; ret.id is that task
ApplyBoostsRaising(bad, where) ==
    \E u \in {ApplyAgeBoostsRaising(tasks, heap, task_map, now, bad, where)} :
       /\ u.raised
       /\ tasks' = u.tasks
       /\ heap' = u.heap
       /\ task_map' = u.map
       /\ history_rows' = history_rows + Len(u.appended)
       /\ ret' = [Ret("boost raised", bad, FALSE, NoTask, u.appended)
                    EXCEPT !.count = u.boosted]
       /\ only_adds' = FALSE
       /\ UNCHANGED <<other, now, batches, batch_counter, popped>>

\* QueueManager.get_next_task: apply_age_boosts, then peek
GetNextTask ==
    \E u \in {ApplyAgeBoosts(tasks, heap, task_map, now)} :
    \E r \in {PeekScan(u.heap, u.map, u.tasks)} :
       /\ tasks' = u.tasks
       /\ heap' = r.heap
       /\ task_map' = r.map
       /\ history_rows' = history_rows + Len(u.appended)
       /\ ret' = [Ret("next", r.task.task_id, Found(r.task), r.task, u.appended)
                    EXCEPT !.count = u.boosted]
       /\ only_adds' = FALSE
       /\ UNCHANGED <<other, now, batches, batch_counter, popped>>

\* QueueManager.create_batch -> BatchProcessor.get_next_batch ->
\* create_batches; ret.batches is the list create_batches returns, of which
\* get_next_batch returns the first by (priority, created_at)
\* (ord: the order in which the store returns rows that ORDER BY ties)
CreateBatchOf(ord) ==
    \E b \in {CreateBatches(tasks, batches, batch_counter, ord, now)} :
       /\ tasks' = b.tasks
       /\ batches' = b.batches
       /\ batch_counter' = b.counter
       /\ ret' = [Ret("batch", NoSuchId, b.out # <<>>, NoTask, <<>>)
                    EXCEPT !.batches = b.out]
       /\ only_adds' = FALSE
       /\ UNCHANGED <<other, now, history_rows, heap, task_map, popped>>

CreateBatch ==
    \E ord \in Orders(DOMAIN tasks) :
        /\ Cardinality(DOMAIN batches) < MaxBatches
        /\ CreateBatchOf(ord)

\* create_batch on a store as first loaded, with the tied rows in
\* ascending or in descending order of their ids
CreateBatchOrdered ==
    \E ord \in {IdsUp(DOMAIN tasks), IdsDown(DOMAIN tasks)} :
        /\ batches = EmptyTable
        /\ batch_counter = 0
        /\ CreateBatchOf(ord)

\* a stored task is serialized with to_dict and read back with from_dict;
\* ret.task is the task read back, ret.ok tells that from_dict returned
RoundTrip ==
    \E id \in DOMAIN tasks :
    \E back \in {FromDict(ToDict(tasks[id]))} :
       /\ ret.op # "roundtrip"
       /\ ret' = Ret("roundtrip", id, Found(back), back, <<>>)
       /\ UNCHANGED <<other, now, tasks, history_rows, batches, heap, task_map,
                      batch_counter, popped, only_adds>>

\* ------------------------------------------------------------------------
\* Operations on a store that fails: one write of the operation raises
\* (sqlite3 error out of _get_connection, which rolls back that write alone:
\* every save_task and record_history call is a transaction of its own).
\* where = "save": save_task raises; where = "history": record_history
\* raises.  Nothing catches the exception: the operation ends there, with
\* the writes before it committed.  The same store states are left by a
\* process that stops between the two writes.  ret.task is the task record
\* the operation committed (NoTask: none), ret.appended its history rows
\* ------------------------------------------------------------------------
\* save_task(upd) then record_history, one of them raising: the store after
SavedBeforeHistory(db, upd, where) ==
    IF where = "history" THEN Put(db, upd.task_id, upd) ELSE db
WrittenBeforeHistory(upd, where) == IF where = "history" THEN upd ELSE NoTask

\* (variant: the task is pushed into the queue before it is persisted)
AddRaisingQueueFirst(q, task, where) ==
    [tasks |-> SavedBeforeHistory(q.tasks, task, where),
     heap |-> HeapPush(q.heap, Entry(task)),
     map |-> Put(q.map, task.task_id, Entry(task))]

\* PriorityQueue.add when a write raises: the heap and the task map are
\* updated after the two writes, so they are not reached
AddRaising(q, task, where) ==
    [tasks |-> SavedBeforeHistory(q.tasks, task, where),
     heap |-> q.heap,
     map |-> q.map]

AddTaskRaising(priority, category, max_retries, where) ==
    LET task_id == NewTaskId(now)
        task == TaskCreate(task_id, priority, category, max_retries, now)
        u == AddRaising([tasks |-> tasks, heap |-> heap, map |-> task_map], task, where)
    IN /\ task_id \in DOMAIN tasks \/ Cardinality(DOMAIN tasks) < MaxTasks
       /\ tasks' = u.tasks
       /\ heap' = u.heap
       /\ task_map' = u.map
       /\ ret' = Ret("add raised", task_id, FALSE, WrittenBeforeHistory(task, where), <<>>)
       /\ only_adds' = FALSE
       /\ UNCHANGED <<other, now, history_rows, batches, batch_counter, popped>>

StartTaskRaising(task_id, where) ==
    LET task == GetTask(tasks, task_id)
        upd == [task EXCEPT !.status = RUNNING,
                            !.started_at = Stamp(now),
                            !.updated_at = Stamp(now)]
    IN /\ Found(task)
       /\ tasks' = SavedBeforeHistory(tasks, upd, where)
       /\ ret' = Ret("start raised", task_id, FALSE, WrittenBeforeHistory(upd, where), <<>>)
       /\ only_adds' = FALSE
       /\ UNCHANGED <<other, now, history_rows, batches, heap, task_map, batch_counter, popped>>

CompleteTaskRaising(task_id, success, where) ==
    LET task == GetTask(tasks, task_id)
        upd == [task EXCEPT !.status = IF success THEN COMPLETED ELSE FAILED,
                            !.completed_at = Stamp(now),
                            !.updated_at = Stamp(now)]
    IN /\ Found(task)
       /\ tasks' = SavedBeforeHistory(tasks, upd, where)
       /\ ret' = Ret("complete raised", task_id, FALSE, WrittenBeforeHistory(upd, where), <<>>)
       /\ only_adds' = FALSE
       /\ UNCHANGED <<other, now, history_rows, batches, heap, task_map, batch_counter, popped>>

\* retry_task: the task map and the heap are updated after the two writes
RetryTaskRaising(task_id, where) ==
    LET task == GetTask(tasks, task_id)
        upd == [task EXCEPT !.retry_count = @ + 1,
                            !.status = PENDING,
                            !.started_at = None,
                            !.completed_at = None,
                            !.updated_at = Stamp(now)]
    IN /\ Found(task)
       /\ ~ RetriesExhausted(task)
       /\ tasks' = SavedBeforeHistory(tasks, upd, where)
       /\ ret' = Ret("retry raised", task_id, FALSE, WrittenBeforeHistory(upd, where), <<>>)
       /\ only_adds' = FALSE
       /\ UNCHANGED <<other, now, history_rows, batches, heap, task_map, batch_counter, popped>>

\* update_priority: record_history comes first, then save_task, then the
\* task map and the heap
SetPriorityRaising(task_id, priority, where) ==
    LET task == GetTask(tasks, task_id)
        row == HistoryRow(task_id, "priority_change",
                          PriorityName(task.priority), PriorityName(priority))
        appended == IF where = "save" THEN <<row>> ELSE <<>>
    IN /\ Found(task)
       /\ history_rows' = history_rows + Len(appended)
       /\ ret' = Ret("priority raised", task_id, FALSE, NoTask, appended)
       /\ only_adds' = FALSE
       /\ UNCHANGED <<other, now, tasks, batches, heap, task_map, batch_counter, popped>>

\* ------------------------------------------------------------------------
\* A second process on the same store (another queue-manager command, with
\* its own QueueManager and its own in-memory queue, which is not part of
\* this state).  Its operation is two steps, between which the operations
\* of the first process run: get_task with the changes to the Task object
\* it returned, then the writes of that object (save_task replaces the
\* whole row: INSERT OR REPLACE) and of the history row
\* ------------------------------------------------------------------------
\* start_task, up to its writes
OtherStartRead(task_id) ==
    LET task == GetTask(tasks, task_id)
        upd == [task EXCEPT !.status = RUNNING,
                            !.started_at = Stamp(now),
                            !.updated_at = Stamp(now)]
    IN /\ other = NoCall
       /\ Found(task)
       /\ other' = [op |-> "start", task |-> upd]
       /\ UNCHANGED <<now, tasks, history_rows, batches, heap, task_map,
                      batch_counter, ret, popped, only_adds>>

\* set_priority -> update_priority, up to its writes
OtherPriorityRead(task_id, new_priority) ==
    LET task == GetTask(tasks, task_id)
        upd == [task EXCEPT !.priority = new_priority,
                            !.updated_at = Stamp(now)]
    IN /\ other = NoCall
       /\ Found(task)
       /\ other' = [op |-> "priority", task |-> upd]
       /\ UNCHANGED <<now, tasks, history_rows, batches, heap, task_map,
                      batch_counter, ret, popped, only_adds>>

\* the writes of the operation in flight: save_task and record_history
OtherWrite ==
    /\ other # NoCall
    /\ tasks' = Put(tasks, other.task.task_id, other.task)
    /\ history_rows' = history_rows + 1
    /\ other' = NoCall
    /\ UNCHANGED <<now, batches, heap, task_map, batch_counter, ret, popped,
                   only_adds>>

\* apply_age_boosts of the second process, up to its loop: now and the
\* list of pending tasks are read once, before the first task is looked at
OtherAgingRead ==
    /\ other = NoCall
    /\ GetPendingTasks(tasks) # <<>>
    /\ other' = [op |-> "aging", pending_tasks |-> GetPendingTasks(tasks), now |-> now]
    /\ UNCHANGED <<now, tasks, history_rows, batches, heap, task_map,
                   batch_counter, ret, popped, only_adds>>

\* one turn of that loop: the new priority comes from the task as the list
\* holds it; update_priority reads the record again and writes it and its
\* history row.  The queue of the second process is its own: the map of this
\* process is not the one update_priority looks into
OtherAgingStep ==
    /\ other # NoCall
    /\ other.op = "aging"
    /\ LET task == Head(other.pending_tasks)
           new_priority == NewPriority(task, other.now)
           rest == Tail(other.pending_tasks)
           u == IF Truthy(new_priority)
                THEN UpdatePriority([tasks |-> tasks, heap |-> <<>>, map |-> EmptyTable,
                                     appended |-> <<>>, ok |-> TRUE],
                                    task.task_id, new_priority, TRUE, now)
                ELSE [tasks |-> tasks, appended |-> <<>>]
       IN /\ tasks' = u.tasks
          /\ history_rows' = history_rows + Len(u.appended)
          /\ other' = IF rest = <<>> THEN NoCall ELSE [other EXCEPT !.pending_tasks = rest]
    /\ UNCHANGED <<now, batches, heap, task_map, batch_counter, ret, popped,
                   only_adds>>

\* the priority strings a caller passes in: accepted spellings of three
\* levels, the name of an enum member (which the mapping does not hold) and
\* a word that is no priority
PriorityStrings == {"P0", "p2", "P3-LOW", "P0_CRITICAL", "urgent"}

\* QueueManager.add_task with the priority as the caller's string:
\* Priority.from_string(priority) is an argument of Task.create, and it is
\* evaluated before the task is built and before queue.add; its ValueError
\* leaves the call there
AddTaskFromString(priority, category, max_retries) ==
    IF FromString(priority) = ValueError
    THEN /\ ret' = Ret("add ValueError", NoSuchId, FALSE, NoTask, <<>>)
         /\ UNCHANGED <<other, now, tasks, history_rows, batches, heap, task_map,
                        batch_counter, popped, only_adds>>
    ELSE AddTask(FromString(priority), category, max_retries)

\* QueueManager.set_priority with the priority as the caller's string:
\* Priority.from_string(priority) is an argument of queue.update_priority
SetPriorityFromString(task_id, priority) ==
    IF FromString(priority) = ValueError
    THEN /\ ret' = Ret("priority ValueError", task_id, FALSE, NoTask, <<>>)
         /\ UNCHANGED <<other, now, tasks, history_rows, batches, heap, task_map,
                        batch_counter, popped, only_adds>>
    ELSE SetPriority(task_id, FromString(priority))

\* the result of a list query: ret.listed holds the rows in the order of
\* the answer
ListRet(op, rows) ==
    [op |-> op, id |-> NoSuchId, ok |-> TRUE, task |-> NoTask, appended |-> <<>>,
     count |-> Len(rows), batches |-> <<>>, listed |-> rows]

\* QueueDatabase.get_pending_tasks
ListPending ==
    /\ ret' = ListRet("list pending", GetPendingTasks(tasks))
    /\ UNCHANGED <<other, now, tasks, history_rows, batches, heap, task_map,
                   batch_counter, popped, only_adds>>

\* QueueDatabase.get_tasks_by_status
ListByStatus(status) ==
    /\ ret' = ListRet("list status", GetTasksByStatus(tasks, status))
    /\ UNCHANGED <<other, now, tasks, history_rows, batches, heap, task_map,
                   batch_counter, popped, only_adds>>

\* QueueDatabase.get_tasks_by_category; ord is the order in which the
\* database gives rows that the ORDER BY clause does not tell apart
ListByCategory(category, status, ord) ==
    /\ ret' = ListRet("list category", GetTasksByCategory(tasks, category, status, ord))
    /\ UNCHANGED <<other, now, tasks, history_rows, batches, heap, task_map,
                   batch_counter, popped, only_adds>>

\* the delete command: QueueDatabase.delete_task
DeleteTask(task_id) ==
    /\ tasks' = Remove(tasks, task_id)
    /\ ret' = Ret("delete", task_id, task_id \in DOMAIN tasks, NoTask, <<>>)
    /\ only_adds' = FALSE
    /\ UNCHANGED <<other, now, history_rows, batches, heap, task_map, batch_counter, popped>>

\* QueueManager.__init__ over the current store: a fresh PriorityQueue
\* (_load_from_db) and a fresh BatchProcessor
NewInstance ==
    LET pending == GetPendingTasks(tasks)
        ids == {pending[i].task_id : i \in DOMAIN pending}
    IN /\ task_map' = [i \in ids |-> Entry(tasks[i])]
       /\ heap' = Heapify({Entry(tasks[i]) : i \in ids})
       /\ batch_counter' = 0
       /\ popped' = {}
       /\ only_adds' = FALSE
       /\ ret' = Ret("new", NoSuchId, TRUE, NoTask, <<>>)
       /\ UNCHANGED <<other, now, tasks, history_rows, batches>>

\* the operations that append to task_history
Recorded ==
    \/ \E p \in Priority, c \in Categories, m \in MaxRetriesChoices : AddTask(p, c, m)
    \/ \E id \in OpIds, a \in Agents : StartTask(id, a)
    \/ \E id \in OpIds, s \in BOOLEAN : CompleteTask(id, s)
    \/ \E id \in OpIds : RetryTask(id)
    \/ \E id \in OpIds, p \in Priority : SetPriority(id, p)
    \/ ApplyBoosts
    \/ GetNextTask

Next ==
    \/ PassHours
    \/ history_rows < MaxHistory /\ Recorded
    \/ Pop
    \/ Peek
    \/ \E id \in OpIds : DeleteTask(id)
    \/ NewInstance

\* the queue and task lifecycle operations
Spec == Init /\ [][Next]_vars

\* the same operations together with the batch operation
NextBatch ==
    \/ Next
    \/ CreateBatch

SpecBatch == Init /\ [][NextBatch]_vars

\* the operations that take the priority as a string
MaxStringRows == 3
NextFromString ==
    \/ PassHours
    \/ /\ history_rows < MaxStringRows
       /\ \/ \E p \in PriorityStrings, c \in Categories, m \in MaxRetriesChoices :
                AddTaskFromString(p, c, m)
          \/ \E id \in OpIds \cup {NoSuchId}, p \in PriorityStrings :
                SetPriorityFromString(id, p)
    \/ Pop

SpecFromString == Init /\ [][NextFromString]_vars

\* the operations that write a task record: creation, the lifecycle, both
\* kinds of priority change and the batch grouping
MaxAuditRows == 3
NextAudit ==
    \/ PassHours
    \/ /\ history_rows < MaxAuditRows
       /\ \/ \E p \in Priority, c \in Categories, m \in MaxRetriesChoices : AddTask(p, c, m)
          \/ \E id \in OpIds : StartTask(id, NoAgent)
          \/ \E id \in OpIds, s \in BOOLEAN : CompleteTask(id, s)
          \/ \E id \in OpIds : RetryTask(id)
          \/ \E id \in OpIds, p \in Priority : SetPriority(id, p)
          \/ ApplyBoosts
    \/ CreateBatch

SpecAudit == Init /\ [][NextAudit]_vars

\* one process adds, starts and completes tasks and runs its aging pass
\* while the aging pass of a second process is under way
MaxSharedAgingRows == 3
NextSharedAging ==
    \/ PassHours
    \/ /\ history_rows < MaxSharedAgingRows
       /\ \/ \E p \in Priority, c \in Categories, m \in MaxRetriesChoices :
                 NewTaskId(now) \notin DOMAIN tasks /\ AddTask(p, c, m)
          \/ \E id \in OpIds : StartTask(id, NoAgent)
          \/ \E id \in OpIds, s \in BOOLEAN : CompleteTask(id, s)
          \/ ApplyBoosts
          \/ OtherAgingStep
    \/ OtherAgingRead

SpecSharedAging == Init /\ [][NextSharedAging]_vars

\* the list queries over a store that add, start, retry and set_priority
\* have written
MaxListRows == 3
NextList ==
    \/ PassHours
    \/ /\ history_rows < MaxListRows
       /\ \/ \E p \in Priority, c \in Categories, m \in MaxRetriesChoices : AddTask(p, c, m)
          \/ \E id \in OpIds : StartTask(id, NoAgent)
          \/ \E id \in OpIds : RetryTask(id)
          \/ \E id \in OpIds, p \in Priority : SetPriority(id, p)
    \/ ListPending
    \/ \E s \in TaskStatus : ListByStatus(s)
    \/ \E c \in Categories, s \in TaskStatus \cup {NoStatus}, ord \in Orders(DOMAIN tasks) :
          ListByCategory(c, s, ord)

SpecList == Init /\ [][NextList]_vars

\* the round trip of a task through its external record form
SpecRoundTrip == InitTask /\ [][RoundTrip]_vars

\* the lifecycle and priority operations on a store whose writes may fail.
\* The exception of a failed write is not caught: it ends the process, and
\* the run of this QueueManager with it
RaisedOps == {"add raised", "start raised", "complete raised", "retry raised",
              "priority raised"}
Alive == ret.op \notin RaisedOps

Failing ==
    \E where \in {"save", "history"} :
        \/ \E p \in Priority, c \in Categories, m \in MaxRetriesChoices :
               AddTaskRaising(p, c, m, where)
        \/ \E id \in OpIds : StartTaskRaising(id, where)
        \/ \E id \in OpIds, s \in BOOLEAN : CompleteTaskRaising(id, s, where)
        \/ \E id \in OpIds : RetryTaskRaising(id, where)
        \/ \E id \in OpIds, p \in Priority : SetPriorityRaising(id, p, where)

NextFault ==
    \/ Alive /\ PassHours
    \/ /\ Alive
       /\ history_rows < MaxFaultRows
       /\ \/ \E p \in Priority, c \in Categories, m \in MaxRetriesChoices : AddTask(p, c, m)
          \/ \E id \in OpIds : StartTask(id, NoAgent)
          \/ \E id \in OpIds, s \in BOOLEAN : CompleteTask(id, s)
          \/ \E id \in OpIds : RetryTask(id)
          \/ \E id \in OpIds, p \in Priority : SetPriority(id, p)
          \/ Failing
    \/ Alive /\ Pop

SpecFault == Init /\ [][NextFault]_vars

\* two processes on one store: the first with its queue, started tasks,
\* priority changes, aging passes and batches, the second with start_task and
\* set_priority; tasks are added in different seconds
NextShared ==
    \/ PassHours
    \/ /\ history_rows < MaxSharedRows
       /\ \/ \E p \in Priority, c \in Categories, m \in MaxRetriesChoices :
                 NewTaskId(now) \notin DOMAIN tasks /\ AddTask(p, c, m)
          \/ \E id \in OpIds : StartTask(id, NoAgent)
          \/ \E id \in OpIds, p \in Priority : SetPriority(id, p)
          \/ ApplyBoosts
          \/ OtherWrite
    \/ CreateBatch
    \/ \E id \in OpIds : OtherStartRead(id)
    \/ \E id \in OpIds, p \in Priority : OtherPriorityRead(id, p)

SpecShared == Init /\ [][NextShared]_vars

\* the batch operation applied to a store
SpecBatchStore == InitStore /\ [][CreateBatchOrdered]_vars

\* the batch operation after the operations that give the tasks their
\* fields: lifecycle, aging and pops
NextBatchFrame ==
    \/ PassHours
    \/ /\ history_rows < MaxFrameRows
       /\ \/ \E p \in Priority, c \in Categories, m \in MaxRetriesChoices : AddTask(p, c, m)
          \/ \E id \in OpIds : StartTask(id, NoAgent)
          \/ \E id \in OpIds, s \in BOOLEAN : CompleteTask(id, s)
          \/ \E id \in OpIds : RetryTask(id)
          \/ ApplyBoosts
    \/ Pop
    \/ CreateBatch

SpecBatchFrame == Init /\ [][NextBatchFrame]_vars

\* the task lifecycle alone: add, start, complete, retry, and the reads of
\* the queue
NextLifecycle ==
    \/ PassHours
    \/ /\ history_rows < MaxLifecycleRows
       /\ \/ \E p \in Priority, c \in Categories, m \in MaxRetriesChoices : AddTask(p, c, m)
          \/ \E id \in OpIds, a \in Agents : StartTask(id, a)
          \/ \E id \in OpIds, s \in BOOLEAN : CompleteTask(id, s)
          \/ \E id \in OpIds : RetryTask(id)
    \/ Pop
    \/ Peek

SpecLifecycle == Init /\ [][NextLifecycle]_vars

\* aging: tasks are added and started, hours pass, and aging passes run
\* (apply_boosts, get_next_task)
NextAging ==
    \/ PassAgingHours
    \/ /\ history_rows < MaxAgingRows
       /\ \/ \E p \in Priority, c \in Categories, m \in MaxRetriesChoices : AddTask(p, c, m)
          \/ \E id \in OpIds : StartTask(id, NoAgent)
          \/ ApplyBoosts
          \/ GetNextTask

SpecAging == Init /\ [][NextAging]_vars

\* aging with a store that may fail during a pass
NextAgingFault ==
    \/ NextAging
    \/ /\ history_rows < MaxAgingRows
       /\ \E bad \in PendingIdsOf(tasks), where \in {"history", "save"} :
              ApplyBoostsRaising(bad, where)

SpecAgingFault == Init /\ [][NextAgingFault]_vars

\* aging of one task under its scheduling: a task is added to the empty
\* store, the clock keeps advancing (up to the horizon of the model) and
\* the external trigger keeps invoking the two operations that run an aging
\* pass
AddFirstTask ==
    /\ history_rows < MaxAgingRows
    /\ tasks = EmptyTable
    /\ \E p \in Priority, c \in Categories, m \in MaxRetriesChoices : AddTask(p, c, m)

TriggerApplyBoosts == history_rows < MaxAgingRows /\ ApplyBoosts
TriggerGetNextTask == history_rows < MaxAgingRows /\ GetNextTask

NextStarvation ==
    \/ PassAgingHours
    \/ AddFirstTask
    \/ TriggerApplyBoosts
    \/ TriggerGetNextTask

SpecStarvation ==
    /\ Init
    /\ [][NextStarvation]_vars
    /\ WF_vars(PassAgingHours)
    /\ WF_vars(TriggerApplyBoosts)
    /\ WF_vars(TriggerGetNextTask)


\* ------------------------------------------------------------------------
\* Properties
\* ------------------------------------------------------------------------
PendingIds == {i \in DOMAIN tasks : tasks[i].status = PENDING}
\* the pending tasks the queue holds
HeldPending == PendingIds \cap DOMAIN task_map
\* the latest operation was a pop, or a peek, that returned a task
PopReturned == ret.op = "pop" /\ ret.ok
PeekReturned == ret.op \in {"peek", "next"} /\ ret.ok

\* C1: after add operations only, peek returns a task whose priority value is
\* the lowest among the tasks pending in the store, and returns nothing only
\* when no task is pending.
C1_PeekLowestAfterAdds ==
    (only_adds /\ ret.op = "peek") =>
        IF ret.ok
        THEN \A i \in PendingIds : ret.task.priority <= tasks[i].priority
        ELSE PendingIds = {}

\* C2: among the pending tasks of one priority that the queue holds, pop and
\* peek return the one created earliest.
C2_FifoWithinTier ==
    (PopReturned \/ PeekReturned) =>
        \A i \in HeldPending :
            tasks[i].priority = ret.task.priority
                => ret.task.created_at <= tasks[i].created_at

\* C3: when pop returns a task, the queue holds no pending task of a
\* numerically lower current priority.
C3_PopMostUrgent ==
    PopReturned => \A i \in HeldPending : ret.task.priority <= tasks[i].priority

\* C4: a task that pop has returned is not returned again by a later peek or
\* pop of the same instance, unless retry re-added it in between.
C4_PoppedStaysOut ==
    [][(ret'.op \in {"pop", "peek", "next"} /\ ret'.ok) => ret'.id \notin popped]_vars

\* C5: a task returned by pop or peek is pending in the store when it is
\* returned, and the returned record is the stored record.
C5_ReturnedIsPendingAndCurrent ==
    (PopReturned \/ PeekReturned) =>
        /\ ret.id \in DOMAIN tasks
        /\ tasks[ret.id].status = PENDING
        /\ ret.task = tasks[ret.id]

\* pop returned a task although the queue holds a more urgent entry whose
\* record is not pending any more (running, completed, failed or deleted)
C5_Witness ==
    /\ PopReturned
    /\ \E i \in DOMAIN task_map :
           /\ i \notin PendingIds
           /\ task_map[i].sort_priority < ret.task.priority

\* C6: start on a task that is not pending is rejected, changes no task
\* record and appends no history row.
C6_StartOnlyPending ==
    [][(/\ ret'.op = "start"
        /\ ret'.id \in DOMAIN tasks
        /\ tasks[ret'.id].status # PENDING)
       => (~ ret'.ok /\ tasks' = tasks /\ history_rows' = history_rows)]_vars

\* C7: complete on a task that is not running is rejected, changes no task
\* record and appends no history row.
C7_CompleteOnlyRunning ==
    [][(/\ ret'.op = "complete"
        /\ ret'.id \in DOMAIN tasks
        /\ tasks[ret'.id].status # RUNNING)
       => (~ ret'.ok /\ tasks' = tasks /\ history_rows' = history_rows)]_vars

\* C8: retry on a task that is not failed is rejected, changes no task
\* record, pushes nothing into the queue and appends no history row.
C8_RetryOnlyFailed ==
    [][(/\ ret'.op = "retry"
        /\ ret'.id \in DOMAIN tasks
        /\ tasks[ret'.id].status # FAILED)
       => (/\ ~ ret'.ok
           /\ tasks' = tasks
           /\ history_rows' = history_rows
           /\ heap' = heap
           /\ task_map' = task_map)]_vars

\* C9: retry on a task with retry_count >= max_retries fails and changes
\* neither the task records, the history, the heap nor the task map; and
\* retry_count never exceeds max_retries.
C9_RetryExhaustedNoEffect ==
    /\ [](\A i \in DOMAIN tasks : tasks[i].retry_count <= tasks[i].max_retries)
    /\ [][(/\ ret'.op = "retry"
           /\ ret'.id \in DOMAIN tasks
           /\ tasks[ret'.id].retry_count >= tasks[ret'.id].max_retries)
          => (/\ ~ ret'.ok
              /\ tasks' = tasks
              /\ history_rows' = history_rows
              /\ heap' = heap
              /\ task_map' = task_map)]_vars

\* retry was refused for a stored task whose retries are used up
C9_Witness ==
    /\ ret.op = "retry"
    /\ ~ ret.ok
    /\ ret.id \in DOMAIN tasks
    /\ tasks[ret.id].retry_count >= tasks[ret.id].max_retries
    /\ tasks[ret.id].retry_count > 0

\* C10: once a task is completed, or failed with its retries used up, no
\* start, complete, retry, set-priority, aging or batch operation changes its
\* status.
Terminal(t) ==
    \/ t.status = COMPLETED
    \/ t.status = FAILED /\ t.retry_count >= t.max_retries

C10_TerminalStatusKept ==
    [][(ret'.op \in {"start", "complete", "retry", "priority", "boost", "next", "batch"})
       => \A i \in DOMAIN tasks :
              Terminal(tasks[i])
                  => (i \in DOMAIN tasks' /\ tasks'[i].status = tasks[i].status)]_vars

\* the ids that pop returns when it is called until the queue is empty
RECURSIVE DrainIds(_, _, _)
DrainIds(h, m, db) ==
    LET r == PopScan(h, m, db)
    IN IF Found(r.task)
       THEN {r.task.task_id} \cup DrainIds(r.heap, r.map, db)
       ELSE {}

\* C11: complete(success=false) on a running task with retries left leaves
\* it failed with retry_count unchanged and completed_at set; retry on a
\* failed task with retries left makes it pending, adds exactly 1 to
\* retry_count, clears started_at and completed_at, and the pops of the same
\* queue instance return it again (peek returns it when it is the only
\* pending task).
C11_FailThenRetry ==
    [][/\ (/\ ret'.op = "complete"
           /\ ret'.id \in DOMAIN tasks
           /\ tasks[ret'.id].status = RUNNING
           /\ tasks[ret'.id].retry_count < tasks[ret'.id].max_retries
           /\ ret'.appended # <<>>
           /\ ret'.appended[1].action = "failed")
          => (/\ ret'.id \in DOMAIN tasks'
              /\ tasks'[ret'.id].status = FAILED
              /\ tasks'[ret'.id].retry_count = tasks[ret'.id].retry_count
              /\ tasks'[ret'.id].completed_at # None)
       /\ (/\ ret'.op = "retry"
           /\ ret'.id \in DOMAIN tasks
           /\ tasks[ret'.id].status = FAILED
           /\ tasks[ret'.id].retry_count < tasks[ret'.id].max_retries)
          => (/\ ret'.ok
              /\ ret'.id \in DOMAIN tasks'
              /\ tasks'[ret'.id].status = PENDING
              /\ tasks'[ret'.id].retry_count = tasks[ret'.id].retry_count + 1
              /\ tasks'[ret'.id].started_at = None
              /\ tasks'[ret'.id].completed_at = None
              /\ ret'.id \in DrainIds(heap', task_map', tasks')
              /\ (PendingIds' = {ret'.id}
                    => PeekScan(heap', task_map', tasks').task.task_id = ret'.id))]_vars

\* a task was started, failed and retried, and peek then returned it
C11_Witness ==
    /\ ret.op = "peek"
    /\ ret.ok
    /\ ret.task.retry_count = 1
    /\ ret.task.assigned_agent = "codex"
    /\ ret.task.started_at = None
    /\ ret.task.completed_at = None
    /\ history_rows = 4

\* the latest operation ran an aging pass (apply_boosts or get_next_task)
AgingPass == ret.op \in {"boost", "next"}
\* seconds since the creation of a task
Age(t) == now - t.created_at
\* the latest operation appended the history row of a promotion of task i
Promoted(i, old, new) ==
    \E k \in DOMAIN ret.appended :
        ret.appended[k] = HistoryRow(i, "priority_boost", PriorityName(old),
                                     PriorityName(new))

\* C12: an aging pass changes the priority or the boost_count of a task only
\* by moving it exactly one tier up (priority value - 1) with boost_count + 1,
\* whatever its age; and a task promoted once to P2 that is younger than the
\* P2 threshold is not promoted by a further pass.
C12_OneTierPerPass ==
    [][AgingPass' =>
        \A i \in DOMAIN tasks :
            /\ i \in DOMAIN tasks'
            /\ (\/ tasks'[i].priority # tasks[i].priority
                \/ tasks'[i].boost_count # tasks[i].boost_count)
                  => (/\ tasks'[i].priority = tasks[i].priority - 1
                      /\ tasks'[i].boost_count = tasks[i].boost_count + 1)
            /\ (/\ tasks[i].priority = P2_MEDIUM
                /\ tasks[i].boost_count = 1
                /\ Age(tasks[i]) < P2_to_P1 * SecondsPerHour)
                  => tasks'[i] = tasks[i]]_vars

\* an aging pass promoted a P3 task that is old enough for two promotions,
\* and it is now P2 with one boost
C12_Witness ==
    /\ AgingPass
    /\ \E i \in DOMAIN tasks :
           /\ Promoted(i, P3_LOW, P2_MEDIUM)
           /\ Age(tasks[i]) >= P2_to_P1 * SecondsPerHour
           /\ tasks[i].priority = P2_MEDIUM
           /\ tasks[i].boost_count = 1

\* C13: an aging pass promotes every pending P1 task older than 24 hours to
\* P0, adds 1 to its boost_count, appends its priority_boost history row and
\* counts it in the number it returns.
C13_P1PromotedToP0 ==
    [][AgingPass' =>
        \A i \in PendingIds :
            (tasks[i].priority = P1_HIGH /\ Age(tasks[i]) > P1_to_P0 * SecondsPerHour)
                => (/\ i \in DOMAIN tasks'
                    /\ tasks'[i].priority = P0_CRITICAL
                    /\ tasks'[i].boost_count = tasks[i].boost_count + 1
                    /\ Promoted(i, P1_HIGH, P0_CRITICAL)'
                    /\ ret'.count >= 1)]_vars

\* AGE_BOOST_THRESHOLDS, in seconds, by the tier a task is in
Threshold(p) ==
    CASE p = P3_LOW -> P3_to_P2 * SecondsPerHour
      [] p = P2_MEDIUM -> P2_to_P1 * SecondsPerHour
      [] p = P1_HIGH -> P1_to_P0 * SecondsPerHour

\* an aging pass left the priority and the boost_count of task i as they were
Kept(i) ==
    /\ i \in DOMAIN tasks'
    /\ tasks'[i].priority = tasks[i].priority
    /\ tasks'[i].boost_count = tasks[i].boost_count

\* C14 (as stated): an aging pass keeps the priority and the boost_count of
\* every P0 task and of every task that has not waited longer than the
\* threshold of its tier.
C14_OnlyPastThreshold ==
    [][AgingPass' =>
        \A i \in DOMAIN tasks :
            (\/ tasks[i].priority = P0_CRITICAL
             \/ Age(tasks[i]) <= Threshold(tasks[i].priority)) => Kept(i)]_vars

\* C14 (amended): an aging pass keeps the priority and the boost_count of
\* every task that is not pending, of every P0 task and of every task that
\* has waited less than the threshold of its tier; a task that has waited
\* exactly the threshold may be promoted.
C14_OnlyFromThreshold ==
    [][AgingPass' =>
        \A i \in DOMAIN tasks :
            (\/ tasks[i].status # PENDING
             \/ tasks[i].priority = P0_CRITICAL
             \/ Age(tasks[i]) < Threshold(tasks[i].priority)) => Kept(i)]_vars

\* an aging pass promoted a task that has waited exactly the threshold of its
\* tier and kept a pending task that has waited less than that of its own
C14_Witness ==
    /\ AgingPass
    /\ \E i, j \in PendingIds :
           /\ Promoted(i, P3_LOW, P2_MEDIUM)
           /\ Age(tasks[i]) = P3_to_P2 * SecondsPerHour
           /\ tasks[j].priority \in {P1_HIGH, P2_MEDIUM, P3_LOW}
           /\ Age(tasks[j]) > 0
           /\ Age(tasks[j]) < Threshold(tasks[j].priority)
           /\ tasks[j].boost_count = 0

\* some pending task is below the top tier
Waiting == \E i \in PendingIds : tasks[i].priority # P0_CRITICAL

\* C15: while time advances and aging passes keep running, every pending
\* task eventually is in the top tier or is pending no more: from any state
\* a state is reached where no pending task is below the top tier.
C15_NoStarvation == Waiting ~> ~ Waiting

\* C16: when the store fails during the update of one task in an aging pass,
\* that task stays as it was and every other pending task that is due a
\* promotion is promoted by the pass, before or after the failure.
C16_FailureSkipsOneTask ==
    [][ret'.op = "boost raised" =>
        \A i \in PendingIds :
            IF i = ret'.id
            THEN i \in DOMAIN tasks' /\ tasks'[i] = tasks[i]
            ELSE Truthy(NewPriority(tasks[i], now))
                    => (/\ i \in DOMAIN tasks'
                        /\ tasks'[i].priority = NewPriority(tasks[i], now)
                        /\ tasks'[i].boost_count = tasks[i].boost_count + 1)]_vars

\* the latest operation was create_batch; ret.batches is the list of batches
\* create_batches returned
AfterBatch == ret.op = "batch"
\* the pending tasks of one category and priority
PairIds(c, p) == {i \in PendingIds : tasks[i].category = c /\ tasks[i].priority = p}
\* the returned batches of one category and priority
PairBatches(c, p) == SelectSeq(ret.batches, LAMBDA b : b.category = c /\ b.priority = p)
CeilDiv(n, c) == (n + c - 1) \div c
\* the places of task i in the returned batches
PlacesOf(i) ==
    {pl \in {<<k, j>> : k \in DOMAIN ret.batches, j \in 1..BATCH_SIZE_LIMIT} :
        /\ pl[2] <= Len(ret.batches[pl[1]].tasks)
        /\ ret.batches[pl[1]].tasks[pl[2]] = i}

\* C17: for the n pending tasks of any one category and priority,
\* create_batches returns exactly ceil(n / BATCH_SIZE_LIMIT) batches of that
\* pair, all of size BATCH_SIZE_LIMIT except possibly the last, which holds
\* the rest (n = 25: sizes 10, 10, 5).
C17_BatchCountAndSizes ==
    AfterBatch =>
        \A c \in StoreCategories, p \in Priority :
            LET n == Cardinality(PairIds(c, p))
                bs == PairBatches(c, p)
            IN /\ Len(bs) = CeilDiv(n, BATCH_SIZE_LIMIT)
               /\ \A k \in DOMAIN bs :
                      Len(bs[k].tasks) = IF k < Len(bs)
                                         THEN BATCH_SIZE_LIMIT
                                         ELSE n - BATCH_SIZE_LIMIT * (Len(bs) - 1)

\* C18: every task placed in a returned batch has, in the store, the
\* batch_id of the batch that holds it, and the batches returned by one call
\* have distinct ids.
C18_BatchReferenceMatches ==
    AfterBatch =>
        /\ \A k \in DOMAIN ret.batches :
               \A j \in DOMAIN ret.batches[k].tasks :
                   LET i == ret.batches[k].tasks[j]
                   IN i \in DOMAIN tasks /\ tasks[i].batch_id = ret.batches[k].batch_id
        /\ \A k1, k2 \in DOMAIN ret.batches :
               k1 # k2 => ret.batches[k1].batch_id # ret.batches[k2].batch_id

\* create_batches returned three batches or more, one of them full
C18_Witness ==
    /\ AfterBatch
    /\ Len(ret.batches) >= 3
    /\ \E k \in DOMAIN ret.batches : Len(ret.batches[k].tasks) = BATCH_SIZE_LIMIT

\* C19: every returned batch has at least one and at most BATCH_SIZE_LIMIT
\* members, all of them pending tasks of the category and the priority of
\* the batch.
C19_BatchMembersFit ==
    AfterBatch =>
        \A k \in DOMAIN ret.batches :
            LET b == ret.batches[k]
            IN /\ Len(b.tasks) >= 1
               /\ Len(b.tasks) <= BATCH_SIZE_LIMIT
               /\ \A j \in DOMAIN b.tasks :
                      /\ b.tasks[j] \in PendingIds
                      /\ tasks[b.tasks[j]].category = b.category
                      /\ tasks[b.tasks[j]].priority = b.priority

\* create_batches returned a full batch and a batch that is not full, over a
\* store that also holds a task that is not pending
C19_Witness ==
    /\ AfterBatch
    /\ \E k1, k2 \in DOMAIN ret.batches :
           /\ Len(ret.batches[k1].tasks) = BATCH_SIZE_LIMIT
           /\ Len(ret.batches[k2].tasks) < BATCH_SIZE_LIMIT
    /\ \E i \in DOMAIN tasks : tasks[i].status = RUNNING

\* C20: create_batches partitions the pending tasks: every pending task,
\* whatever its category, is in exactly one place of the returned batches.
C20_PendingTasksPartitioned ==
    AfterBatch => \A i \in PendingIds : Cardinality(PlacesOf(i)) = 1

\* C21: after create_batches returns, every batch of its result has its
\* summary row in the batches table (batch id, category, priority), the full
\* batches of a pair that needed more than one batch included.
C21_EveryBatchPersisted ==
    AfterBatch =>
        \A k \in DOMAIN ret.batches :
            LET b == ret.batches[k]
            IN /\ b.batch_id \in DOMAIN batches
               /\ batches[b.batch_id].category = b.category
               /\ batches[b.batch_id].priority = b.priority

\* the ids of the tasks that pop returns, in order, when it is called until
\* the queue is empty
RECURSIVE DrainSeq(_, _, _)
DrainSeq(h, m, db) ==
    LET r == PopScan(h, m, db)
    IN IF Found(r.task)
       THEN <<r.task.task_id>> \o DrainSeq(r.heap, r.map, db)
       ELSE <<>>

\* C22: create_batches and get_next_batch change no field of a stored task
\* other than its batch reference, add and remove no task, and leave the
\* sequence of tasks that the following pops return as it was.
C22_BatchKeepsTasksAndOrder ==
    [][ret'.op = "batch"
         => /\ DOMAIN tasks' = DOMAIN tasks
            /\ \A i \in DOMAIN tasks :
                   tasks'[i] = [tasks[i] EXCEPT !.batch_id = tasks'[i].batch_id]
            /\ DrainSeq(heap', task_map', tasks') = DrainSeq(heap, task_map, tasks)]_vars

\* create_batches has put in a batch a task that an aging pass had promoted,
\* while the queue holds a task to pop
C22_Witness ==
    /\ AfterBatch
    /\ \E i \in DOMAIN tasks :
           /\ tasks[i].batch_id # NoBatch
           /\ tasks[i].boost_count > 0
    /\ DrainSeq(heap, task_map, tasks) # <<>>

\* C23: for every task, of each of the four priorities, to_dict followed by
\* from_dict succeeds and gives a task equal to the original in all fields
\* (priority, original priority, boost count, retry count, status,
\* timestamps).
C23_RoundTripEqual ==
    ret.op = "roundtrip" => (ret.ok /\ ret.task = tasks[ret.id])

\* C24: every add_task gives the new task an identifier that no stored task
\* has, however close in time the adds are: it replaces no task record and
\* raises the number of stored tasks by exactly one.
C24_AddGivesFreshId ==
    [][(ret'.op = "add" /\ history_rows' = history_rows + 1)
         => /\ ret'.id \notin DOMAIN tasks
            /\ \A i \in DOMAIN tasks : tasks'[i] = tasks[i]
            /\ Cardinality(DOMAIN tasks') = Cardinality(DOMAIN tasks) + 1]_vars

\* C26: every operation that changes a field of a stored task record, or
\* stores a new one, appends a history event for that task.
C26_ChangeHasHistoryEvent ==
    [][\A i \in DOMAIN tasks' :
          (i \notin DOMAIN tasks \/ tasks'[i] # tasks[i])
             => /\ history_rows' > history_rows
                /\ \E k \in DOMAIN ret'.appended : ret'.appended[k].task_id = i]_vars

\* the operations that take a task id
ByIdOps == {"start", "complete", "retry", "priority"}

\* C30: start, complete, retry and set_priority on an identifier that is not
\* in the store return a not-found result (no task, no exception) and leave
\* the task records, the history log, the heap and the task map unchanged.
C30_NotFoundChangesNothing ==
    [][(ret'.op \in ByIdOps /\ ret'.id \notin DOMAIN tasks)
         => /\ ~ ret'.ok
            /\ ret'.task = NoTask
            /\ ret'.appended = <<>>
            /\ UNCHANGED <<tasks, history_rows, heap, task_map>>]_vars

\* an operation was called with the id of a deleted task that the queue
\* still holds, while the store holds another task
C30_Witness ==
    /\ ret.op \in ByIdOps
    /\ ret.id \notin DOMAIN tasks
    /\ ret.id \in DOMAIN task_map
    /\ tasks # EmptyTable
    /\ ~ ret.ok

\* the five recording operations
RecordingOps == {"add", "start", "complete", "retry", "priority"}

\* C25: the task-record write and the history append of add, start,
\* complete, retry and update_priority are one atomic step: whenever such an
\* operation ends, also by a failure or a stop between its writes, the store
\* holds its task update if and only if it holds its history event.
C25_WriteAndHistoryTogether ==
    ret.op \in RecordingOps \cup RaisedOps
        => (Found(ret.task) <=> ret.appended # <<>>)

\* C27: when a store write fails at any step of add, start, complete, retry
\* or update_priority, the operation fails and the task records and the
\* history log are exactly as before the operation.
C27_FailedWriteLeavesStore ==
    [][ret'.op \in RaisedOps
         => (~ ret'.ok /\ UNCHANGED <<tasks, history_rows>>)]_vars

\* C28: when the store rejects a write during add, retry or update_priority,
\* the heap and the task map are exactly as before the operation.
C28_FailedWriteLeavesQueue ==
    [][ret'.op \in {"add raised", "retry raised", "priority raised"}
         => UNCHANGED <<heap, task_map>>]_vars

\* an add failed at its history write: the store holds the new task and the
\* queue, which holds another task, does not
C28_Witness ==
    /\ ret.op = "add raised"
    /\ Found(ret.task)
    /\ ret.id \in DOMAIN tasks
    /\ ret.id \notin DOMAIN task_map
    /\ heap # <<>>

\* C29: when two processes that share the store run operations on the same
\* task concurrently, the stored record reflects both: the write of an
\* operation changes the fields of that operation only, and overwrites no
\* update that the other process made after the record was read.
C29_NoLostUpdate ==
    [][(other # NoCall /\ other' = NoCall /\ other.task.task_id \in DOMAIN tasks)
         => LET id == other.task.task_id
            IN tasks'[id] =
                 IF other.op = "start"
                 THEN [tasks[id] EXCEPT !.status = other.task.status,
                                        !.started_at = other.task.started_at,
                                        !.updated_at = other.task.updated_at]
                 ELSE [tasks[id] EXCEPT !.priority = other.task.priority,
                                        !.updated_at = other.task.updated_at]]_vars

\* C31: a mutating operation reports a refusal distinctly from not-found:
\* the result of retry on a stored task whose retries are exhausted differs
\* from the result of retry on an id that is not in the store, which is
\* None (no task).
C31_RefusalDistinctFromNotFound ==
    [][(/\ ret'.op = "retry"
        /\ ret'.id \in DOMAIN tasks
        /\ RetriesExhausted(tasks[ret'.id]))
         => <<ret'.ok, ret'.task>> # <<FALSE, NoTask>>]_vars

\* C32: an add or a set-priority whose priority string is none of the
\* accepted spellings of the four levels (in any letter case, with blanks
\* around it) raises the error and writes nothing: the task records, the
\* history log and the queue are as before the call.
AcceptedSpellings ==
    {"P0", "CRITICAL", "P0-CRITICAL", "P1", "HIGH", "P1-HIGH",
     "P2", "MEDIUM", "P2-MEDIUM", "P3", "LOW", "P3-LOW",
     "p2", " critical "}
ValueErrorOps == {"add ValueError", "priority ValueError"}
C32_MalformedPriorityWritesNothing ==
    [][\A p \in PriorityStrings \ AcceptedSpellings :
         (\/ \E c \in Categories, m \in MaxRetriesChoices : AddTaskFromString(p, c, m)
          \/ \E id \in OpIds \cup {NoSuchId} : SetPriorityFromString(id, p))
           => /\ ret'.op \in ValueErrorOps
              /\ ~ ret'.ok
              /\ UNCHANGED <<tasks, history_rows, heap, task_map>>]_vars
\* a malformed string was refused while the store and the queue hold a task
C32_Witness ==
    /\ ret.op \in ValueErrorOps
    /\ tasks # EmptyTable
    /\ heap # <<>>

\* C33: the original priority of a task is its priority at creation, and no
\* later operation changes it: in every step each stored task keeps its
\* original_priority, and the task an add has just stored has
\* original_priority equal to its priority.
C33_OriginalPriorityKept ==
    [][\A i \in DOMAIN tasks' :
          IF ret'.op = "add" /\ ret'.id = i /\ ret' # ret
          THEN tasks'[i].original_priority = tasks'[i].priority
          ELSE i \in DOMAIN tasks
               /\ tasks'[i].original_priority = tasks[i].original_priority]_vars
\* a task that was promoted by age, put into a batch and started: its
\* priority differs from its original priority
C33_Witness ==
    \E i \in DOMAIN tasks :
        /\ tasks[i].boost_count > 0
        /\ tasks[i].batch_id # NoBatch
        /\ tasks[i].status = RUNNING
        /\ tasks[i].priority # tasks[i].original_priority

\* C34: the boost_count of a task never decreases, and it increases only
\* in a step before which the stored status of the task is pending, also
\* when another process changes the status during an aging pass.
C34_BoostOnlyWhilePending ==
    [][\A i \in DOMAIN tasks \cap DOMAIN tasks' :
          /\ tasks'[i].boost_count >= tasks[i].boost_count
          /\ tasks'[i].boost_count > tasks[i].boost_count
               => tasks[i].status = PENDING]_vars

\* C35: the answers of listPending, listByStatus and listByCategory are in
\* ascending order of priority and, among tasks of equal priority, in
\* ascending order of creation time.
ListOps == {"list pending", "list status", "list category"}
C35_ListsOrdered ==
    ret.op \in ListOps
       => \A i, j \in DOMAIN ret.listed : i < j => ~ RowLess(ret.listed[j], ret.listed[i])

\* C36: a queue built fresh over a store mirrors it: right after the
\* construction, popping until the queue is empty returns the tasks that
\* are pending in the store, each once, in the order of listPending
\* (priority ascending, then creation time ascending).
C36_FreshQueueMirrorsStore ==
    ret.op = "new"
       => DrainSeq(heap, task_map, tasks)
            = [i \in DOMAIN GetPendingTasks(tasks) |-> GetPendingTasks(tasks)[i].task_id]

\* C37: size() is the number of tasks that successive pops would still
\* return, and isEmpty() is true exactly when peek() returns no task.
C37_SizeCountsDeliverable ==
    /\ Size(task_map) = Len(DrainSeq(heap, task_map, tasks))
    /\ IsEmpty(task_map) <=> ~ Found(PeekScan(heap, task_map, tasks).task)

\* C38: the lifecycle timestamps agree with the status: a pending task has
\* neither started_at nor completed_at, a running task has started_at and no
\* completed_at, a completed or failed task has completed_at.
C38_TimestampsAgreeWithStatus ==
    \A i \in DOMAIN tasks :
        /\ tasks[i].status = PENDING
             => tasks[i].started_at = None /\ tasks[i].completed_at = None
        /\ tasks[i].status = RUNNING
             => tasks[i].started_at # None /\ tasks[i].completed_at = None
        /\ tasks[i].status \in {COMPLETED, FAILED}
             => tasks[i].completed_at # None

\* C39: peek does not change what the queue will deliver: it changes no
\* task record, it keeps every heap entry of a task that the queue holds and
\* that is still pending, the pops that would follow return the same tasks
\* in the same order as before the peek, and a pop right after it returns
\* the task that the peek returned (no task when the peek returned none).
C39_PeekThenPopSameTask ==
    [][ret'.op = "peek"
         => /\ tasks' = tasks
            /\ \A k \in DOMAIN heap :
                  (/\ heap[k].task_id \in DOMAIN task_map
                   /\ StillPending(GetTask(tasks, heap[k].task_id)))
                     => \E n \in DOMAIN heap' : heap'[n] = heap[k]
            /\ DrainSeq(heap', task_map', tasks') = DrainSeq(heap, task_map, tasks)
            /\ PopScan(heap', task_map', tasks').task = ret'.task]_vars
\* a peek returned a task after it had discarded the stale entry of a task
\* that the queue still holds in its map
C39_Witness ==
    /\ ret.op = "peek"
    /\ ret.ok
    /\ \E i \in DOMAIN task_map : \A k \in DOMAIN heap : heap[k].task_id # i

\* C40: a task that delete removed from the store is returned by no later
\* peek or pop, also while the queue still holds its heap entry and its map
\* entry and after the heap was rebuilt for a priority change of another
\* task: the task a pop or peek has returned is in the store, and an id
\* that the queue holds and the store does not is neither what peek finds
\* nor among the tasks that successive pops return.
C40_DeletedNeverReturned ==
    /\ (ret.op \in {"pop", "peek"} /\ ret.ok) => ret.id \in DOMAIN tasks
    /\ \A i \in (DOMAIN task_map \cup {heap[k].task_id : k \in DOMAIN heap}) \ DOMAIN tasks :
          /\ PeekScan(heap, task_map, tasks).task.task_id # i
          /\ \A n \in DOMAIN DrainSeq(heap, task_map, tasks) :
                DrainSeq(heap, task_map, tasks)[n] # i
\* the priority of a task has just been set, with the heap rebuilt, while
\* the queue holds the entries of a deleted task and that task is first in
\* the heap
C40_Witness ==
    /\ ret.op = "priority"
    /\ ret.ok
    /\ ret.id \in DOMAIN task_map
    /\ heap # <<>>
    /\ heap[1].task_id \notin DOMAIN tasks
    /\ heap[1].task_id \in DOMAIN task_map
    /\ DrainSeq(heap, task_map, tasks) # <<>>

====
